---- MODULE Spec2Model ----
(***************************************************************************)
(* Model of the kiosk media player of src/run.py: the playback controller  *)
(* (AdPlayerWindow), the frame producer (VideoThread) and the command      *)
(* listener (IPCServerThread).                                             *)
(*                                                                         *)
(* The GUI thread runs one handler at a time.  A handler runs atomically   *)
(* up to a call of VideoThread.stop() / QThread.wait(), where it is split  *)
(* so that the producer thread interleaves with it; the rest of the        *)
(* handler is kept in win.cont and run when wait() returns.                *)
(* Signals emitted by the worker threads are queued connections: they are  *)
(* appended to the GUI thread's event queue evq and handled in order.      *)
(***************************************************************************)
EXTENDS Integers, Sequences, FiniteSets, TLC

VARIABLES
    win,        \* fields of AdPlayerWindow, plus the GUI thread's position
    threads,    \* the VideoThread objects created so far, by creation order
    evq,        \* posted events of the GUI thread (queued signal deliveries)
    ipc,        \* the IPCServerThread
    env,        \* the environment: background asset, payloads sent so far
    last        \* history: the step the GUI thread took last

vars == <<win, threads, evq, ipc, env, last>>

(***************************************************************************)
(* Bounds                                                                  *)
(***************************************************************************)
MaxPayloads == 2      \* payloads the clients send in one run
FadeSteps == 2        \* animation ticks of one 150 ms fade
MaxFrames == 2        \* decoded frames of a playable video file

(***************************************************************************)
(* Files.  A file is known by its path; the catalogue says whether the     *)
(* path exists, what its suffix is and whether its content decodes.        *)
(***************************************************************************)
Files == {"a.png", "v.mp4", "gone.mp4", "bad.png", "bad.mp4"}

Background == "bg.png"     \* the --start argument

\* os.path.exists: the background may be absent, the other files are fixed
exists(path) ==
    IF path = Background THEN env.bg_exists
    ELSE path \in {"a.png", "v.mp4", "bad.png", "bad.mp4"}

suffix(path) == IF path \in {"a.png", "bad.png"} THEN ".png" ELSE ".mp4"

ImageSuffixes == {".jpg", ".jpeg", ".png", ".bmp", ".gif", ".webp"}

\* Image.open / MediaPlayer succeed on the file
decodes(path) == path \in {"a.png", "v.mp4", Background}

Durations == {0, 1}

(***************************************************************************)
(* Values                                                                  *)
(***************************************************************************)
NoCommand == [type |-> "none"]
NoPixmap == [kind |-> "none"]
NoEvent == [t |-> "none"]
NoCont == [op |-> "none"]
NoSync == [pts |-> -1, audio_pts |-> -1]

\* the commands a client can send as a JSON object
PlayCommands == [command : {"PLAY"}, file : Files, duration : Durations]
Commands == PlayCommands \cup {[command |-> "STOP"], [command |-> "EXIT"]}

\* payloads by what IPCServerThread.run makes of them: a JSON object, text
\* that is no JSON, bytes that are no UTF-8, nothing at all
BadPayloads == {[kind |-> "not_json"], [kind |-> "not_utf8"]}
EmptyPayload == [kind |-> "empty"]
JsonPayloads == {[kind |-> "json", cmd |-> c] : c \in Commands}
Payloads == JsonPayloads \cup BadPayloads \cup {EmptyPayload}

(***************************************************************************)
(* QPropertyAnimation on the opacity, 150 ms = FadeSteps ticks.  Opacity   *)
(* is counted in ticks: 0 is transparent, FadeSteps is opaque.             *)
(*   start() on a running animation does nothing; setStartValue and        *)
(*   setEndValue on a running animation move the property at once; on a   *)
(*   stopped animation they leave the property alone.                      *)
(***************************************************************************)
valueAt(a) ==
    a.startValue + ((a.endValue - a.startValue) * a.time) \div FadeSteps

setStartValue(w, v) ==
    LET a == [w.anim EXCEPT !.startValue = v]
    IN  [w EXCEPT !.anim = a,
                  !.opacity = IF a.state = "Running" THEN valueAt(a) ELSE @]

setEndValue(w, v) ==
    LET a == [w.anim EXCEPT !.endValue = v]
    IN  [w EXCEPT !.anim = a,
                  !.opacity = IF a.state = "Running" THEN valueAt(a) ELSE @]

start(w) ==
    IF w.anim.state = "Running" THEN w
    ELSE [w EXCEPT !.anim = [@ EXCEPT !.state = "Running", !.time = 0],
                   !.opacity = w.anim.startValue]

(***************************************************************************)
(* VideoThread objects                                                     *)
(***************************************************************************)
\* VideoThread.__init__ followed by QThread.start()
VideoThread(video_path, duration) ==
    [video_path |-> video_path, duration |-> duration,
     running |-> TRUE,
     player |-> FALSE,       \* self.player is not None
     session |-> "none",     \* the MediaPlayer: none, open, closed
     closes |-> 0,           \* close_player() calls on the session
     pc |-> "start",
     pos |-> 0,              \* frames decoded so far
     locals |-> FALSE,       \* lines 47-53 have run: last_frame is bound
     last_frame |-> 0,       \* 0: None
     av |-> NoSync]          \* timestamps of the frame emitted in this
                             \* iteration of the loop

\* QThread.isRunning(): started and run() has not returned
isRunning(t) == t.pc # "done"

(***************************************************************************)
(* The GUI thread's methods.  They work on a view m = [w, th, ipc] of the  *)
(* window, the thread objects and the listener, and return the view        *)
(* after the call.                                                         *)
(***************************************************************************)
\* self.video_thread and self.video_thread.isRunning()
video_running(m) ==
    m.w.video_thread # 0 /\ isRunning(m.th[m.w.video_thread])

\* the handler reaches video_thread.stop(); video_thread.wait(): the rest
\* of it is kept in cont
block(m, cont) == [m EXCEPT !.w.mpc = "stop_flag", !.w.cont = cont]

fade_in(m) ==
    [m EXCEPT !.w = start(setEndValue(setStartValue(@, 0), FadeSteps))]

\* fade_out from the animation calls on (lines 513-515)
fade_out_animation(m) ==
    [m EXCEPT !.w = start(setEndValue(setStartValue(@, FadeSteps), 0))]

\* a fade_out that leaves the producer running during the transition
fade_out_keeps_producer(m) ==
    IF m.w.is_transitioning THEN m
    ELSE fade_out_animation([m EXCEPT !.w.is_transitioning = TRUE])

fade_out(m) ==
    IF m.w.is_transitioning THEN m
    ELSE LET m1 == [m EXCEPT !.w.is_transitioning = TRUE]
         IN  IF video_running(m1) THEN block(m1, [op |-> "fade_out"])
             ELSE fade_out_animation(m1)

\* Image.open raises on a file that does not decode; the except clause
\* swallows it and nothing was changed
display_image(m, image_path, duration, is_background) ==
    IF ~(exists(image_path) /\ decodes(image_path)) THEN m
    ELSE [m EXCEPT !.w.pixmap = [kind |-> "image", file |-> image_path,
                                 fill |-> is_background],
                   !.w.image_after = Len(m.th),
                   !.w.timer = IF duration > 0 THEN TRUE ELSE @]

\* display_video from the creation of the thread on (lines 372-376)
display_video_start(m, video_path, duration) ==
    [m EXCEPT !.th = Append(@, VideoThread(video_path, duration)),
              !.w.video_thread = Len(m.th) + 1]

\* what the caller of display_video does after it returns
after_display_video(m, caller) ==
    IF caller = "on_fade_finished"
    THEN [fade_in(m) EXCEPT !.w.is_transitioning = FALSE]
    ELSE fade_in(m)

\* a display_video that starts the new thread without stopping the old one
display_video_never_stops(m) == FALSE

\* the test of line 362
display_video_must_stop(m) == video_running(m)

display_video(m, video_path, duration, caller) ==
    IF display_video_must_stop(m)
    THEN block(m, [op |-> "display_video", file |-> video_path,
                   duration |-> duration, caller |-> caller])
    ELSE after_display_video(display_video_start(m, video_path, duration),
                             caller)

update_frame(m, frame) ==
    [m EXCEPT !.w.pixmap = [kind |-> "frame", tid |-> frame.tid, n |-> frame.n]]

is_image(filepath) == suffix(filepath) \in ImageSuffixes

\* a play_media without the test of lines 436-438
play_media_unchecked(m, filepath, duration) ==
    LET m1 == [m EXCEPT !.w.timer = FALSE, !.w.current_file = filepath]
    IN  IF m1.w.opacity > 0
        THEN fade_out([m1 EXCEPT !.w.pending_command =
                  [type |-> "play", file |-> filepath,
                   duration |-> duration, is_image |-> is_image(filepath)]])
        ELSE IF is_image(filepath)
             THEN fade_in(display_image(m1, filepath, duration, FALSE))
             ELSE display_video(m1, filepath, duration, "play_media")

\* a play_media that fades out only from full opacity and switches at
\* once during a fade
play_media_direct_below_full(m, filepath, duration) ==
    IF ~exists(filepath) THEN m
    ELSE LET m1 == [m EXCEPT !.w.timer = FALSE,
                             !.w.current_file = filepath]
         IN  IF m1.w.opacity >= FadeSteps
             THEN fade_out([m1 EXCEPT !.w.pending_command =
                       [type |-> "play", file |-> filepath,
                        duration |-> duration,
                        is_image |-> is_image(filepath)]])
             ELSE IF is_image(filepath)
                  THEN fade_in(display_image(m1, filepath, duration, FALSE))
                  ELSE display_video(m1, filepath, duration, "play_media")

\* a play_media that never fades out: it switches at once, whatever the
\* opacity
play_media_always_direct(m, filepath, duration) ==
    IF ~exists(filepath) THEN m
    ELSE LET m1 == [m EXCEPT !.w.timer = FALSE,
                             !.w.current_file = filepath]
         IN  IF is_image(filepath)
             THEN fade_in(display_image(m1, filepath, duration, FALSE))
             ELSE display_video(m1, filepath, duration, "play_media")

play_media(m, filepath, duration) ==
    IF ~exists(filepath) THEN m
    ELSE LET m1 == [m EXCEPT !.w.timer = FALSE,
                             !.w.current_file = filepath]
         IN  IF m1.w.opacity > 0
             THEN fade_out([m1 EXCEPT !.w.pending_command =
                       [type |-> "play", file |-> filepath,
                        duration |-> duration,
                        is_image |-> is_image(filepath)]])
             ELSE IF is_image(filepath)
                  THEN fade_in(display_image(m1, filepath, duration, FALSE))
                  ELSE display_video(m1, filepath, duration, "play_media")

\* a stop_playback that records the request and starts no fade-out
stop_playback_return_no_fade(m) ==
    IF exists(Background)
    THEN [m EXCEPT !.w.pending_command = [type |-> "background"]]
    ELSE m

\* stop_playback from line 476 on
stop_playback_return(m) ==
    IF exists(Background)
    THEN fade_out([m EXCEPT !.w.pending_command = [type |-> "background"]])
    ELSE m

\* a stop_playback that never asks for the background
stop_playback_stays(m) == m

\* a stop_playback that does not stop the producer
stop_playback_keeps_producer(m) ==
    stop_playback_return([m EXCEPT !.w.timer = FALSE])

stop_playback(m) ==
    LET m1 == [m EXCEPT !.w.timer = FALSE]
    IN  IF video_running(m1) THEN block(m1, [op |-> "stop_playback"])
        ELSE stop_playback_return(m1)

\* an on_media_timeout that goes back to the background when the time is up
on_media_timeout_returns(m) ==
    stop_playback_return([m EXCEPT !.w.timer = FALSE])

on_media_timeout(m) == [m EXCEPT !.w.timer = FALSE]

on_video_finished(m, last_frame) ==
    IF last_frame.n > 0 THEN update_frame(m, last_frame) ELSE m

on_fade_finished(m) ==
    IF m.w.pending_command # NoCommand
    THEN LET cmd == m.w.pending_command
             m1 == [m EXCEPT !.w.pending_command = NoCommand]
         IN  IF cmd.type = "play"
             THEN IF cmd.is_image
                  THEN [fade_in(display_image(m1, cmd.file, cmd.duration, FALSE))
                          EXCEPT !.w.is_transitioning = FALSE]
                  ELSE display_video(m1, cmd.file, cmd.duration,
                                     "on_fade_finished")
             ELSE [fade_in(display_image(m1, Background, 0, TRUE))
                     EXCEPT !.w.is_transitioning = FALSE]
    ELSE [m EXCEPT !.w.is_transitioning = FALSE]

\* closeEvent from line 549 on
closeEvent_video(m) ==
    IF video_running(m) THEN block(m, [op |-> "closeEvent"])
    ELSE [m EXCEPT !.w.mpc = "closed"]

closeEvent(m) ==
    IF m.ipc.pc # "done"
    THEN [m EXCEPT !.ipc.running = FALSE,
                   !.w.mpc = "wait_ipc", !.w.cont = [op |-> "closeEvent"]]
    ELSE closeEvent_video(m)

handle_ipc_command(m, command) ==
    IF command.command = "PLAY"
    THEN IF command.file # "" THEN play_media(m, command.file, command.duration)
         ELSE m
    ELSE IF command.command = "STOP" THEN stop_playback(m)
    ELSE IF command.command = "EXIT" THEN closeEvent(m)
    ELSE m

\* the rest of the handler that was split at stop(); wait()
resume(m) ==
    LET c == m.w.cont
        m1 == [m EXCEPT !.w.mpc = "idle", !.w.cont = NoCont]
    IN  IF c.op = "fade_out" THEN fade_out_animation(m1)
        ELSE IF c.op = "stop_playback" THEN stop_playback_return(m1)
        ELSE IF c.op = "display_video"
             THEN after_display_video(
                      display_video_start(m1, c.file, c.duration), c.caller)
        ELSE [m1 EXCEPT !.w.mpc = "closed"]


(***************************************************************************)
(* Initial state: after AdPlayerWindow.__init__ (lines 217-266)            *)
(***************************************************************************)
Init ==
    /\ env \in [bg_exists : BOOLEAN, sent : {0}, keys : {0}]
    /\ win = [current_file |-> "none",
              video_thread |-> 0,
              is_transitioning |-> FALSE,
              pending_command |-> NoCommand,
              opacity |-> FadeSteps,
              anim |-> [state |-> "Stopped", time |-> 0,
                        startValue |-> FadeSteps, endValue |-> FadeSteps],
              timer |-> FALSE,               \* media_timer is active
              pixmap |-> NoPixmap,
              image_after |-> 0,             \* history: the producers created
                                             \* when a request last set the
                                             \* pixmap to an image (0 for the
                                             \* background shown at startup)
              bg_timer |-> env.bg_exists,    \* singleShot of line 266
              mpc |-> "idle",
              cont |-> NoCont,
              handling |-> NoEvent]
    /\ threads = <<>>
    /\ evq = <<>>
    /\ ipc = [pc |-> "init", running |-> TRUE, sock_file |-> FALSE,
              conn |-> [payload |-> "none"]]    \* the connection served last
    /\ last = [act |-> "Init"]

View == [w |-> win, th |-> threads, ipc |-> ipc]

\* the handler has returned to the event loop (or the window is closed)
returned(m) == m.w.mpc \in {"idle", "closed"}

Apply(m) ==
    /\ win' = [m.w EXCEPT !.handling = IF returned(m) THEN NoEvent ELSE @]
    /\ threads' = m.th
    /\ ipc' = m.ipc

Handling(e) == [View EXCEPT !.w.handling = e]

(***************************************************************************)
(* The GUI thread: delivery of queued signals                              *)
(***************************************************************************)
\* command_received -> handle_ipc_command
HandleCommand ==
    /\ win.mpc = "idle"
    /\ evq # <<>>
    /\ Head(evq).t = "cmd"
    /\ LET e == Head(evq)
           m == handle_ipc_command(Handling(e), e.cmd)
       IN  /\ Apply(m)
           /\ last' = [act |-> "HandleCommand", cmd |-> e.cmd,
                       done |-> returned(m)]
    /\ evq' = Tail(evq)
    /\ UNCHANGED env

\* frame_ready -> update_frame
HandleFrame ==
    /\ win.mpc = "idle"
    /\ evq # <<>>
    /\ Head(evq).t = "frame"
    /\ LET e == Head(evq)
       IN  /\ Apply(update_frame(Handling(e), e))
           /\ last' = [act |-> "HandleFrame", tid |-> e.tid, n |-> e.n]
    /\ evq' = Tail(evq)
    /\ UNCHANGED env

\* playback_finished -> on_video_finished
HandleFinished ==
    /\ win.mpc = "idle"
    /\ evq # <<>>
    /\ Head(evq).t = "finished"
    /\ LET e == Head(evq)
       IN  /\ Apply(on_video_finished(Handling(e), e))
           /\ last' = [act |-> "HandleFinished", tid |-> e.tid, n |-> e.n]
    /\ evq' = Tail(evq)
    /\ UNCHANGED env

(***************************************************************************)
(* The GUI thread inside VideoThread.stop() and QThread.wait()             *)
(***************************************************************************)
\* line 147
MainStopFlag ==
    /\ win.mpc = "stop_flag"
    /\ threads' = [threads EXCEPT ![win.video_thread].running = FALSE]
    /\ win' = [win EXCEPT !.mpc = "stop_close"]
    /\ last' = [act |-> "MainStopFlag", tid |-> win.video_thread]
    /\ UNCHANGED <<evq, ipc, env>>

\* lines 148-152
MainStopClose ==
    /\ win.mpc = "stop_close"
    /\ LET t == threads[win.video_thread]
       IN  IF t.player
           THEN /\ threads' = [threads EXCEPT ![win.video_thread] =
                        [t EXCEPT !.session = "closed", !.closes = @ + 1]]
                /\ win' = [win EXCEPT !.mpc = "stop_clear"]
           ELSE /\ threads' = threads
                /\ win' = [win EXCEPT !.mpc = "wait"]
    /\ last' = [act |-> "MainStopClose", tid |-> win.video_thread]
    /\ UNCHANGED <<evq, ipc, env>>

\* line 153
MainStopClear ==
    /\ win.mpc = "stop_clear"
    /\ threads' = [threads EXCEPT ![win.video_thread].player = FALSE]
    /\ win' = [win EXCEPT !.mpc = "wait"]
    /\ last' = [act |-> "MainStopClear", tid |-> win.video_thread]
    /\ UNCHANGED <<evq, ipc, env>>

\* video_thread.wait() returns and the handler runs to its end
MainWaitReturn ==
    /\ win.mpc = "wait"
    /\ ~isRunning(threads[win.video_thread])
    /\ LET m == resume(View)
       IN  /\ Apply(m)
           /\ last' = [act |-> "MainWaitReturn", ev |-> win.handling,
                       op |-> win.cont.op, done |-> returned(m)]
    /\ UNCHANGED <<evq, env>>

\* ipc_thread.wait() returns (line 547)
MainWaitIPC ==
    /\ win.mpc = "wait_ipc"
    /\ ipc.pc = "done"
    /\ LET m == closeEvent_video([View EXCEPT !.w.mpc = "idle",
                                              !.w.cont = NoCont])
       IN  /\ Apply(m)
           /\ last' = [act |-> "MainWaitIPC", done |-> returned(m)]
    /\ UNCHANGED <<evq, env>>

(***************************************************************************)
(* The GUI thread: timers and keys.  Qt delivers the posted events before  *)
(* it fires timers, so a timer fires on an empty event queue.              *)
(***************************************************************************)
TimersMayFire == win.mpc = "idle" /\ evq = <<>>

\* an animation tick that is not the last one
FadeTick ==
    /\ TimersMayFire
    /\ win.anim.state = "Running"
    /\ win.anim.time + 1 < FadeSteps
    /\ LET a == [win.anim EXCEPT !.time = @ + 1]
       IN  win' = [win EXCEPT !.anim = a, !.opacity = valueAt(a)]
    /\ last' = [act |-> "FadeTick"]
    /\ UNCHANGED <<threads, evq, ipc, env>>

\* the last tick: the animation stops and emits finished
FadeFinished ==
    /\ TimersMayFire
    /\ win.anim.state = "Running"
    /\ win.anim.time + 1 >= FadeSteps
    /\ LET a == [win.anim EXCEPT !.time = FadeSteps, !.state = "Stopped"]
           e == [t |-> "fade", endValue |-> a.endValue,
                 pending |-> win.pending_command]
           m == on_fade_finished([Handling(e) EXCEPT
                    !.w.anim = a, !.w.opacity = a.endValue])
       IN  /\ Apply(m)
           /\ last' = [act |-> "FadeFinished", ev |-> e, done |-> returned(m)]
    /\ UNCHANGED <<evq, env>>

MediaTimeout ==
    /\ TimersMayFire
    /\ win.timer
    /\ Apply(on_media_timeout(View))
    /\ last' = [act |-> "MediaTimeout"]
    /\ UNCHANGED <<evq, env>>

\* display_initial_background (lines 268-271)
InitialBackground ==
    /\ TimersMayFire
    /\ win.bg_timer
    /\ LET m0 == [View EXCEPT !.w.bg_timer = FALSE]
       IN  Apply(IF exists(Background)
                 THEN [display_image(m0, Background, 0, TRUE)
                          EXCEPT !.w.image_after = 0]
                 ELSE m0)
    /\ last' = [act |-> "InitialBackground"]
    /\ UNCHANGED <<evq, env>>

MaxKeys == 1

\* keyPressEvent with Q or Escape: close()
KeyQuit ==
    /\ win.mpc = "idle"
    /\ env.keys < MaxKeys
    /\ env' = [env EXCEPT !.keys = @ + 1]
    /\ LET m == closeEvent(Handling([t |-> "key"]))
       IN  /\ Apply(m)
           /\ last' = [act |-> "KeyQuit", done |-> returned(m)]
    /\ UNCHANGED evq


(***************************************************************************)
(* VideoThread.run, one producer thread i                                  *)
(***************************************************************************)
\* an emit whose event overtakes the events that wait in the queue
Emit_overtakes(e) == evq' = <<e>> \o evq

Emit(e) == evq' = Append(evq, e)

SetThread(i, t) == threads' = [threads EXCEPT ![i] = t]

\* lines 45-55: MediaPlayer(...) raises when the session cannot be
\* started, and the locals of lines 47-53 are then never assigned
VTOpen(i) ==
    /\ threads[i].pc = "start"
    /\ IF decodes(threads[i].video_path)
       THEN SetThread(i, [threads[i] EXCEPT !.player = TRUE,
                              !.session = "open", !.locals = TRUE,
                              !.pc = "loop"])
       ELSE SetThread(i, [threads[i] EXCEPT !.pc = "finally"])
    /\ UNCHANGED <<win, evq, ipc, env, last>>

\* a loop that does not look at the flag
loop_ignores_stop(t) == TRUE

\* line 58: while self.running
loop_goes_on(t) == t.running

\* lines 58-64: the loop test and the duration limit
VTLoop(i) ==
    /\ threads[i].pc = "loop"
    /\ \E elapsed \in BOOLEAN :
          /\ elapsed => loop_goes_on(threads[i]) /\ threads[i].duration > 0
          /\ SetThread(i, [threads[i] EXCEPT !.av = NoSync, !.pc =
                 IF ~loop_goes_on(threads[i]) \/ elapsed THEN "finally"
                 ELSE "poll"])
    /\ UNCHANGED <<win, evq, ipc, env, last>>

\* lines 67-121: one poll of the decode session.
\*   outcome: "eof", "none" (no frame ready, or paused), "frame" (decoded
\*   and emitted), "skip" (decoded, conversion failed), "raise".
\* A poll through a cleared reference raises; a poll of a session that
\* stop() has closed but not yet cleared can end in any way but a frame;
\* a poll of an open session can raise on a fault in the stream.
PollOutcomes(t) ==
    IF ~t.player THEN {"raise"}
    ELSE IF t.session = "closed" THEN {"raise", "eof", "none"}
    ELSE IF t.pos >= MaxFrames THEN {"eof", "none", "raise"}
    ELSE {"none", "frame", "skip", "raise"}

\* timestamps in microseconds: pts of the frame and get_pts() of the audio
\* clock; 0: no audio reference
AVInputs ==
    {[pts |-> 0, audio_pts |-> 0],                \* no audio reference
     [pts |-> 100000, audio_pts |-> 40000],       \* video ahead by 60 ms
     [pts |-> 100000, audio_pts |-> 100000],      \* in step
     [pts |-> 100000, audio_pts |-> 200000]}      \* video behind by 100 ms

\* lines 105-119: the time the thread sleeps after it has emitted a frame,
\* in microseconds
sync_sleep(pts, audio_pts) ==
    IF audio_pts > 0 /\ pts > 0
    THEN LET delay == pts - audio_pts
         IN  IF delay > 1000
             THEN (IF delay < 100000 THEN delay ELSE 100000)
             ELSE IF delay < -50000 THEN 0      \* continue
             ELSE 0                             \* falls through to line 121
    ELSE 1000

\* a producer that drops the frame instead of its wait when the video is
\* behind the audio
frame_ready_drops_late(pts, audio_pts) ==
    ~(audio_pts > 0 /\ pts > 0 /\ pts - audio_pts < -50000)

\* lines 91-99: a frame that converts is emitted, whatever its timestamps
frame_ready_emitted(pts, audio_pts) == TRUE

VTPoll(i) ==
    /\ threads[i].pc = "poll"
    /\ \E outcome \in PollOutcomes(threads[i]), av \in AVInputs :
          LET t == threads[i]
          IN  /\ IF outcome \in {"raise", "eof"}
                 THEN SetThread(i, [t EXCEPT !.pc = "finally"]) /\ evq' = evq
                 ELSE IF outcome = "none"
                 THEN SetThread(i, [t EXCEPT !.pc = "loop"]) /\ evq' = evq
                 ELSE IF outcome = "skip"
                 THEN /\ SetThread(i, [t EXCEPT !.pc = "loop", !.pos = @ + 1])
                      /\ evq' = evq
                 ELSE /\ SetThread(i, [t EXCEPT !.pc = "loop", !.pos = @ + 1,
                                         !.last_frame = t.pos + 1,
                                         !.av = av])
                      /\ IF frame_ready_emitted(av.pts, av.audio_pts)
                         THEN Emit([t |-> "frame", tid |-> i,
                                    n |-> t.pos + 1])
                         ELSE evq' = evq
    /\ UNCHANGED <<win, ipc, env, last>>

\* lines 132-136
VTFinally(i) ==
    /\ threads[i].pc = "finally"
    /\ IF threads[i].player
       THEN SetThread(i, [threads[i] EXCEPT !.session = "closed",
                              !.closes = @ + 1, !.pc = "fin_clear"])
       ELSE SetThread(i, [threads[i] EXCEPT !.pc = "emit"])
    /\ UNCHANGED <<win, evq, ipc, env, last>>

\* line 137
VTClear(i) ==
    /\ threads[i].pc = "fin_clear"
    /\ SetThread(i, [threads[i] EXCEPT !.player = FALSE, !.pc = "emit"])
    /\ UNCHANGED <<win, evq, ipc, env, last>>

\* lines 140-143, and run() returns.  When last_frame was never assigned
\* the test of line 140 raises UnboundLocalError out of the finally clause:
\* run() ends without the emit
VTFinished(i) ==
    /\ threads[i].pc = "emit"
    /\ SetThread(i, [threads[i] EXCEPT !.pc = "done"])
    /\ IF threads[i].locals
       THEN Emit([t |-> "finished", tid |-> i, n |-> threads[i].last_frame])
       ELSE evq' = evq
    /\ UNCHANGED <<win, ipc, env, last>>

(***************************************************************************)
(* IPCServerThread.run                                                     *)
(***************************************************************************)
\* line 179, reached from the bind or from a connection: the loop goes
\* into accept() ("serve") unless the flag has been cleared meanwhile
\* ("test": the test is about to fail)
loop_test == IF ipc.running THEN "serve" ELSE "test"

\* lines 169-175
IPCBind ==
    /\ ipc.pc = "init"
    /\ ipc' = [ipc EXCEPT !.pc = loop_test, !.sock_file = TRUE]
    /\ UNCHANGED <<win, threads, evq, env, last>>

\* line 181: the listener is inside accept() ("serve") and accept()
\* returns the connection of a client, at most limit payloads in a run;
\* the listener goes on to recv, which has no timeout
accept(limit) ==
    /\ ipc.pc = "serve"
    /\ env.sent < limit
    /\ ipc' = [ipc EXCEPT !.pc = "recv"]
    /\ UNCHANGED <<win, threads, evq, env, last>>

IPCAccept == accept(MaxPayloads)

\* lines 182-201: recv returns what the client has sent (nothing when the
\* client has closed its end).  reply: what is sent back ("none":
\* nothing); closed: client_socket.close() was reached; cmd: the result of
\* json.loads
serve(payload) ==
    /\ ipc.pc = "recv"
    /\ env' = [env EXCEPT !.sent = @ + 1]
    /\ IF payload.kind = "json"
       THEN /\ Emit([t |-> "cmd", cmd |-> payload.cmd])
            /\ ipc' = [ipc EXCEPT !.pc = loop_test, !.conn =
                    [payload |-> payload.kind, reply |-> "OK",
                     closed |-> TRUE, emitted |-> TRUE,
                     cmd |-> payload.cmd]]
       ELSE /\ evq' = evq
            /\ ipc' = [ipc EXCEPT !.pc = loop_test, !.conn =
                    [payload |-> payload.kind,
                     reply |-> IF payload.kind = "not_json" THEN "ERROR"
                               ELSE "none",
                     closed |-> payload.kind # "not_utf8",
                     emitted |-> FALSE]]
    /\ UNCHANGED <<win, threads, last>>

IPCReceive(payload) == serve(payload)

\* accept() times out if need be, the loop test fails (line 179) and the
\* finally clause runs (205-209)
IPCExit ==
    /\ ipc.pc \in {"serve", "test"}
    /\ ~ipc.running
    /\ ipc' = [ipc EXCEPT !.pc = "done", !.sock_file = FALSE]
    /\ UNCHANGED <<win, threads, evq, env, last>>

Next ==
    \/ HandleCommand
    \/ HandleFrame
    \/ HandleFinished
    \/ MainStopFlag
    \/ MainStopClose
    \/ MainStopClear
    \/ MainWaitReturn
    \/ MainWaitIPC
    \/ FadeTick
    \/ FadeFinished
    \/ MediaTimeout
    \/ InitialBackground
    \/ KeyQuit
    \/ \E i \in DOMAIN threads :
          \/ VTOpen(i)
          \/ VTLoop(i)
          \/ VTPoll(i)
          \/ VTFinally(i)
          \/ VTClear(i)
          \/ VTFinished(i)
    \/ IPCBind
    \/ IPCAccept
    \/ \E payload \in Payloads : IPCReceive(payload)
    \/ IPCExit

Spec == Init /\ [][Next]_vars

(***************************************************************************)
(* Fairness: the Qt event loop keeps delivering queued signals and firing  *)
(* the animation and single-shot timers, a handler inside stop()/wait()   *)
(* goes on, and the operating system keeps scheduling the producer and the *)
(* listener threads.  Payloads, key presses and the expiry of the media    *)
(* timer are not forced.                                                   *)
(***************************************************************************)
GUIStep ==
    \/ HandleCommand
    \/ HandleFrame
    \/ HandleFinished
    \/ MainStopFlag
    \/ MainStopClose
    \/ MainStopClear
    \/ MainWaitReturn
    \/ MainWaitIPC
    \/ FadeTick
    \/ FadeFinished
    \/ InitialBackground

ProducerStep ==
    \E i \in DOMAIN threads :
        \/ VTOpen(i)
        \/ VTLoop(i)
        \/ VTPoll(i)
        \/ VTFinally(i)
        \/ VTClear(i)
        \/ VTFinished(i)

ListenerStep == IPCBind \/ IPCExit

FairSpec ==
    /\ Spec
    /\ WF_vars(GUIStep)
    /\ WF_vars(ProducerStep)
    /\ WF_vars(ListenerStep)

(***************************************************************************)
(* The player under Play and Stop commands alone: no Exit, no key press,   *)
(* no payload that is not a command.                                       *)
(***************************************************************************)
PlayStopPayloads ==
    {p \in JsonPayloads : p.cmd.command \in {"PLAY", "STOP"}}

NextPlayStop ==
    \/ HandleCommand
    \/ HandleFrame
    \/ HandleFinished
    \/ MainStopFlag
    \/ MainStopClose
    \/ MainStopClear
    \/ MainWaitReturn
    \/ FadeTick
    \/ FadeFinished
    \/ MediaTimeout
    \/ InitialBackground
    \/ \E i \in DOMAIN threads :
          \/ VTOpen(i)
          \/ VTLoop(i)
          \/ VTPoll(i)
          \/ VTFinally(i)
          \/ VTClear(i)
          \/ VTFinished(i)
    \/ IPCBind
    \/ IPCAccept
    \/ \E payload \in PlayStopPayloads : IPCReceive(payload)

FairPlayStop ==
    /\ Init
    /\ [][NextPlayStop]_vars
    /\ WF_vars(GUIStep)
    /\ WF_vars(ProducerStep)
    /\ WF_vars(IPCBind)

(***************************************************************************)
(* The player under a burst of commands: one payload more than in Spec,    *)
(* drawn from a few commands, so that a command can arrive while the       *)
(* handler of the command before it is blocked in the wait for a producer. *)
(***************************************************************************)
MaxBurst == 3

BurstPayloads ==
    {[kind |-> "json", cmd |-> c] :
        c \in {[command |-> "PLAY", file |-> "v.mp4", duration |-> 0],
               [command |-> "PLAY", file |-> "a.png", duration |-> 0],
               [command |-> "STOP"]}}

NextBurst ==
    \/ HandleCommand
    \/ HandleFrame
    \/ HandleFinished
    \/ MainStopFlag
    \/ MainStopClose
    \/ MainStopClear
    \/ MainWaitReturn
    \/ FadeTick
    \/ FadeFinished
    \/ InitialBackground
    \/ \E i \in DOMAIN threads :
          \/ VTOpen(i)
          \/ VTLoop(i)
          \/ VTPoll(i)
          \/ VTFinally(i)
          \/ VTClear(i)
          \/ VTFinished(i)
    \/ IPCBind
    \/ accept(MaxBurst)
    \/ \E payload \in BurstPayloads : IPCReceive(payload)

SpecBurst == Init /\ [][NextBurst]_vars

(***************************************************************************)
(* Several player processes on one machine: main() of each started         *)
(* player, its listener, and the socket file they share.  This             *)
(* specification keeps one process state per player in win, one listener   *)
(* per player in ipc and the file system in env; producers and event       *)
(* queues play no part in it.                                              *)
(*   env.sock: the player whose bind created the file at IPC_SOCKET_PATH,  *)
(*   0 when there is no file.                                              *)
(***************************************************************************)
MaxPlayers == 2       \* player processes
MaxStarts == 3        \* --start invocations in one run

Players == 1..MaxPlayers

\* the listener of player p has bound the address and is in its accept loop
Live(p) == ipc[p].pc = "serve"

is_instance_running == env.sock # 0

\* kill_existing_instance run by player p: the Exit it sends is overtaken
\* by kill -9 on every other player, then the file is removed
kill_existing_instance(p) ==
    /\ win' = [q \in Players |-> IF q = p THEN "gui" ELSE "off"]
    /\ ipc' = [q \in Players |->
                 IF q = p THEN [pc |-> "init", running |-> TRUE]
                 ELSE [pc |-> "none", running |-> TRUE]]
    /\ env' = [env EXCEPT !.sock = 0, !.starts = @ + 1]

\* main with --start: the window is created and its listener started
Launch(p, single_instance) ==
    /\ win[p] = "off"
    /\ env.starts < MaxStarts
    /\ IF single_instance /\ is_instance_running
       THEN kill_existing_instance(p)
       ELSE /\ win' = [win EXCEPT ![p] = "gui"]
            /\ ipc' = [ipc EXCEPT ![p] = [pc |-> "init", running |-> TRUE]]
            /\ env' = [env EXCEPT !.starts = @ + 1]
    /\ last' = [act |-> "Launch", p |-> p, single |-> single_instance]
    /\ UNCHANGED <<threads, evq>>

\* lines 169-170
ListenerUnlink(p) ==
    /\ ipc[p].pc = "init"
    /\ ipc' = [ipc EXCEPT ![p].pc = "bind"]
    /\ env' = [env EXCEPT !.sock = 0]
    /\ last' = [act |-> "ListenerUnlink", p |-> p]
    /\ UNCHANGED <<win, threads, evq>>

\* lines 172-175: bind raises when another player has bound the path since
ListenerBind(p) ==
    /\ ipc[p].pc = "bind"
    /\ IF env.sock = 0
       THEN /\ env' = [env EXCEPT !.sock = p]
            /\ ipc' = [ipc EXCEPT ![p].pc =
                          IF ipc[p].running THEN "serve" ELSE "test"]
       ELSE /\ env' = env
            /\ ipc' = [ipc EXCEPT ![p].pc = "finally"]
    /\ last' = [act |-> "ListenerBind", p |-> p]
    /\ UNCHANGED <<win, threads, evq>>

\* closeEvent of player p, lines 545-547; with no listener left to wait
\* for, the process ends
Close(p) ==
    /\ win[p] = "gui"
    /\ IF ipc[p].pc = "done"
       THEN /\ win' = [win EXCEPT ![p] = "off"]
            /\ ipc' = [ipc EXCEPT ![p] = [pc |-> "none", running |-> TRUE]]
       ELSE /\ win' = [win EXCEPT ![p] = "closing"]
            /\ ipc' = [ipc EXCEPT ![p].running = FALSE]
    /\ last' = [act |-> "Close", p |-> p]
    /\ UNCHANGED <<threads, evq, env>>

\* line 179: the loop test fails
ListenerStops(p) ==
    /\ ipc[p].pc \in {"serve", "test"}
    /\ ~ipc[p].running
    /\ ipc' = [ipc EXCEPT ![p].pc = "finally"]
    /\ last' = [act |-> "ListenerStops", p |-> p]
    /\ UNCHANGED <<win, threads, evq, env>>

\* lines 205-209: the socket is closed and whatever file is at the path
\* is removed
ListenerFinally(p) ==
    /\ ipc[p].pc = "finally"
    /\ ipc' = [ipc EXCEPT ![p].pc = "done"]
    /\ env' = [env EXCEPT !.sock = 0]
    /\ last' = [act |-> "ListenerFinally", p |-> p]
    /\ UNCHANGED <<win, threads, evq>>

\* ipc_thread.wait() returns in closeEvent and the process ends
Quit(p) ==
    /\ win[p] = "closing"
    /\ ipc[p].pc = "done"
    /\ win' = [win EXCEPT ![p] = "off"]
    /\ ipc' = [ipc EXCEPT ![p] = [pc |-> "none", running |-> TRUE]]
    /\ last' = [act |-> "Quit", p |-> p]
    /\ UNCHANGED <<threads, evq, env>>

\* the process of player p is killed from outside: nothing is cleaned up
Crash(p) ==
    /\ win[p] # "off"
    /\ win' = [win EXCEPT ![p] = "off"]
    /\ ipc' = [ipc EXCEPT ![p] = [pc |-> "none", running |-> TRUE]]
    /\ last' = [act |-> "Crash", p |-> p]
    /\ UNCHANGED <<threads, evq, env>>

InitInstances ==
    /\ win = [p \in Players |-> "off"]
    /\ ipc = [p \in Players |-> [pc |-> "none", running |-> TRUE]]
    /\ env = [sock |-> 0, starts |-> 0]
    /\ threads = <<>>
    /\ evq = <<>>
    /\ last = [act |-> "Init"]

NextInstances ==
    \E p \in Players :
        \/ \E single_instance \in BOOLEAN : Launch(p, single_instance)
        \/ ListenerUnlink(p)
        \/ ListenerBind(p)
        \/ Close(p)
        \/ ListenerStops(p)
        \/ ListenerFinally(p)
        \/ Quit(p)
        \/ Crash(p)

SpecInstances == InitInstances /\ [][NextInstances]_vars

(***************************************************************************)
(* The geometry of display_image and update_frame on its own: the sizes    *)
(* of the source and of the screen are drawn in the initial state (env)    *)
(* and the result of a call is kept in last.                               *)
(*                                                                         *)
(* Python computes scale = N / D and int(a * scale) in IEEE double         *)
(* arithmetic.  IntScaled gives that result exactly, in integers: the      *)
(* quotient N / D is rounded to 53 bits, which moves it by rem / D units   *)
(* in the last place down (or up), the product is rounded again, and       *)
(* int() cuts the fraction off.  Only when a * N / D is a whole number n   *)
(* can the two roundings matter: the result is n - 1 when the product      *)
(* falls more than half a unit in the last place short of n.               *)
(***************************************************************************)
MaxSide == 3          \* the small sizes are 1..MaxSide

RECURSIVE Pow2(_)
Pow2(j) == IF j <= 0 THEN 1 ELSE 2 * Pow2(j - 1)

\* 2^k modulo D
RECURSIVE Pow2Mod(_, _)
Pow2Mod(k, D) == IF k <= 0 THEN 1 % D ELSE (2 * Pow2Mod(k - 1, D)) % D

\* for N >= D: the largest e >= e0 with 2^e <= N / D
RECURSIVE Log2Up(_, _, _)
Log2Up(N, D, e0) ==
    IF D * Pow2(e0 + 1) <= N THEN Log2Up(N, D, e0 + 1) ELSE e0

\* for N < D: the smallest j >= j0 with 2^-j <= N / D
RECURSIVE Log2Down(_, _, _)
Log2Down(N, D, j0) ==
    IF N * Pow2(j0) < D THEN Log2Down(N, D, j0 + 1) ELSE j0

\* floor(log2(N / D))
FloorLog2(N, D) == IF N >= D THEN Log2Up(N, D, 0) ELSE 0 - Log2Down(N, D, 0)

\* int(a * (N / D)) of lines 317-323 and 403-405, for positive integers
IntScaled(a, N, D) ==
    LET n == (a * N) \div D
        e_r == FloorLog2(N, D)
        rem == ((N % D) * Pow2Mod(52 - e_r, D)) % D
        E == FloorLog2(n, 1)
        r == E - e_r - 1
        lhs == a * rem * (IF n = Pow2(E) THEN 2 ELSE 1)
    IN  IF (a * N) % D # 0 THEN n
        ELSE IF rem = 0 \/ 2 * rem > D THEN n
        ELSE IF r >= 0
             THEN (IF lhs > D * Pow2(r) THEN n - 1 ELSE n)
             ELSE (IF lhs * Pow2(0 - r) > D THEN n - 1 ELSE n)

\* lines 315-323 (and 403-405 with is_background false): the scaled size
scaled_size(img_width, img_height, screen_width, screen_height, is_background) ==
    LET width_wins ==
            IF is_background
            THEN screen_width * img_height >= screen_height * img_width
            ELSE screen_width * img_height <= screen_height * img_width
        N == IF width_wins THEN screen_width ELSE screen_height
        D == IF width_wins THEN img_width ELSE img_height
    IN  <<IntScaled(img_width, N, D), IntScaled(img_height, N, D)>>

\* lines 331-336: the crop box (left, top, right, bottom), <<>> for none
crop_box(new_width, new_height, screen_width, screen_height, is_background) ==
    IF is_background
         /\ (new_width > screen_width \/ new_height > screen_height)
    THEN LET left == (new_width - screen_width) \div 2
             top == (new_height - screen_height) \div 2
         IN  <<left, top, left + screen_width, top + screen_height>>
    ELSE <<>>

\* the sizes the images and screens are drawn from
SmallSizes == (1..MaxSide) \X (1..MaxSide)

ImageSizes ==
    SmallSizes \cup {<<1920, 1080>>, <<800, 600>>, <<1000, 563>>,
                     <<77, 77>>, <<23, 13>>}

ScreenSizes == SmallSizes \cup {<<1280, 720>>, <<13, 13>>}

InitFit ==
    /\ env \in [img : ImageSizes, screen : ScreenSizes]
    /\ last = [act |-> "Init"]
    /\ win = <<>>
    /\ threads = <<>>
    /\ evq = <<>>
    /\ ipc = <<>>

\* the geometry of one call of display_image (lines 312-337)
DisplayImage(is_background) ==
    /\ last.act = "Init"
    /\ LET size == scaled_size(env.img[1], env.img[2],
                               env.screen[1], env.screen[2], is_background)
           crop == crop_box(size[1], size[2],
                            env.screen[1], env.screen[2], is_background)
       IN  last' = [act |-> "display_image",
                    is_background |-> is_background,
                    size |-> size,
                    crop |-> crop]
    /\ UNCHANGED <<win, threads, evq, ipc, env>>

\* the geometry of update_frame for a frame of the size env.img
\* (lines 402-409)
UpdateFrame ==
    /\ last.act = "Init"
    /\ last' = [act |-> "update_frame",
                is_background |-> FALSE,
                size |-> scaled_size(env.img[1], env.img[2],
                                     env.screen[1], env.screen[2], FALSE),
                crop |-> <<>>]
    /\ UNCHANGED <<win, threads, evq, ipc, env>>

NextFit ==
    \/ \E is_background \in BOOLEAN : DisplayImage(is_background)
    \/ UpdateFrame

SpecFit == InitFit /\ [][NextFit]_vars

(***************************************************************************)
(* The wait of the producer after a frame on its own: the timestamps are   *)
(* drawn in the initial state (env, microseconds) and the sleep of lines   *)
(* 105-119 is kept in last.                                                *)
(***************************************************************************)
Timestamps ==
    {0, 1000, 2000, 2500, 51000, 52000, 52500, 102000, 150000, 300000}

InitSync ==
    /\ env \in [pts : Timestamps, audio_pts : Timestamps]
    /\ last = [act |-> "Init"]
    /\ win = <<>>
    /\ threads = <<>>
    /\ evq = <<>>
    /\ ipc = <<>>

\* lines 105-119 after the emit of line 98
AfterFrame ==
    /\ last.act = "Init"
    /\ last' = [act |-> "sync",
                slept |-> sync_sleep(env.pts, env.audio_pts)]
    /\ UNCHANGED <<win, threads, evq, ipc, env>>

NextSync == AfterFrame

SpecSync == InitSync /\ [][NextSync]_vars

(***************************************************************************)
(* Type invariant                                                          *)
(***************************************************************************)
TypeOK ==
    /\ win.opacity \in 0..FadeSteps
    /\ win.anim.time \in 0..FadeSteps
    /\ win.video_thread \in 0..Len(threads)
    /\ win.mpc \in {"idle", "stop_flag", "stop_close", "stop_clear", "wait",
                    "wait_ipc", "closed"}
    /\ Len(threads) <= MaxBurst
    /\ env.sent \in 0..MaxBurst


(***************************************************************************)
(* Claims                                                                  *)
(***************************************************************************)
Running == {i \in DOMAIN threads : isRunning(threads[i])}

\* C1: at most one Frame Producer runs at any time: whenever a producer is
\* started, every producer created before it has been stopped and has
\* exited.
C1_SingleProducer ==
    /\ Cardinality(Running) <= 1
    /\ \A i \in Running : i = Len(threads) /\ i = win.video_thread

\* a second producer is running and the first one, stopped by the
\* controller, has exited
C1_Witness ==
    /\ Len(threads) >= 2
    /\ isRunning(threads[2])
    /\ ~threads[1].running
    /\ ~isRunning(threads[1])


\* a step that shows the content of a Play command: a foreground image is
\* put on the label, or a producer is started for a video
ImageShown ==
    /\ win'.pixmap # win.pixmap
    /\ win'.pixmap.kind = "image"
    /\ ~win'.pixmap.fill

ProducerStarted == Len(threads') > Len(threads)

\* C2: whenever the content of a Play command is applied (fade-out path or
\* immediate path, image or video), every producer that existed before has
\* exited: none of them is running once the new content is shown.
C2_TeardownBeforeDisplay ==
    [][(ImageShown \/ ProducerStarted)
          => \A i \in DOMAIN threads : ~isRunning(threads'[i])]_vars


\* the GUI thread takes command c off its queue and handles it
Dispatch(c) ==
    /\ win.mpc = "idle"
    /\ evq # <<>>
    /\ Head(evq) = [t |-> "cmd", cmd |-> c]
    /\ evq' = Tail(evq)

FadeOutInFlight ==
    /\ win.is_transitioning
    /\ win.anim.state = "Running"
    /\ win.anim.endValue = 0

\* the transition request a command stands for
Request(c) ==
    IF c.command = "PLAY"
    THEN [type |-> "play", file |-> c.file, duration |-> c.duration,
          is_image |-> is_image(c.file)]
    ELSE [type |-> "background"]

\* the running fade-out completes in this step
FadeOutCompletes ==
    /\ FadeOutInFlight
    /\ win.mpc = "idle"
    /\ win'.anim # win.anim
    /\ win.anim.time + 1 >= FadeSteps

\* request r is what the step displays
Applied(r) ==
    IF r.type = "background"
    THEN win'.pixmap = [kind |-> "image", file |-> Background, fill |-> TRUE]
    ELSE IF r.is_image
    THEN IF decodes(r.file)
         THEN win'.pixmap = [kind |-> "image", file |-> r.file, fill |-> FALSE]
         ELSE win'.pixmap = win.pixmap
    ELSE /\ Len(threads') = Len(threads) + 1
         /\ threads'[Len(threads')].video_path = r.file
         /\ win'.pixmap = win.pixmap

\* a command that asks for a transition
IsRequest(c) ==
    c.command = "STOP" \/ (c.command = "PLAY" /\ exists(c.file))

\* C3: at most one transition request is pending and the newest wins: a
\* Play of an existing file, or a Stop, that arrives while the fade-out
\* started by Play(A) is running replaces the pending request and starts no
\* second fade-out, and the fade completion displays the pending request
\* and nothing else.
C3_NewestWins ==
    [][/\ \A c \in Commands :
            (Dispatch(c) /\ IsRequest(c) /\ FadeOutInFlight
                /\ win.pending_command.type = "play")
            => /\ win'.pending_command = Request(c)
               /\ win'.anim = win.anim
               /\ win'.opacity = win.opacity
       /\ FadeOutCompletes
            => /\ Applied(win.pending_command)
               /\ win'.pending_command = NoCommand]_vars

\* the same with a background asset that exists
C3_NewestWinsWithBackground ==
    [][env.bg_exists =>
       /\ \A c \in Commands :
            (Dispatch(c) /\ IsRequest(c) /\ FadeOutInFlight
                /\ win.pending_command.type = "play")
            => /\ win'.pending_command = Request(c)
               /\ win'.anim = win.anim
               /\ win'.opacity = win.opacity
       /\ FadeOutCompletes
            => /\ Applied(win.pending_command)
               /\ win'.pending_command = NoCommand]_vars


\* C4: a fade-out request that arrives while a fade-out is running is a
\* no-op on the animation: while the fade-out is in flight no command
\* handler restarts or retargets it or changes the opacity; the animation
\* only advances by its own ticks, to its one completion.
C4_FadeOutGuard ==
    [][FadeOutInFlight =>
          /\ \A c \in Commands : Dispatch(c) =>
                /\ win'.anim = win.anim
                /\ win'.opacity = win.opacity
                /\ win'.is_transitioning
          /\ \/ win'.anim = win.anim /\ win'.opacity = win.opacity
             \/ /\ win.anim.time + 1 < FadeSteps
                /\ win'.anim = [win.anim EXCEPT !.time = @ + 1]
                /\ win'.opacity = valueAt(win'.anim)
             \/ FadeOutCompletes]_vars

\* a Stop has just been handled while a fade-out that had already advanced
\* was running, and the fade-out is still running
C4_Witness ==
    /\ last = [act |-> "HandleCommand", cmd |-> [command |-> "STOP"],
               done |-> TRUE]
    /\ FadeOutInFlight
    /\ win.anim.time > 0
    /\ win.pending_command.type = "background"


BackgroundShown ==
    /\ win.pixmap = [kind |-> "image", file |-> Background, fill |-> TRUE]
    /\ win.opacity = FadeSteps
    /\ win.anim.state = "Stopped"
    /\ ~win.is_transitioning
    /\ win.pending_command = NoCommand

NoCommandQueued == \A k \in DOMAIN evq : evq[k].t # "cmd"

\* a Stop command has been taken off the queue, k payloads have arrived
\* until now and none of them is waiting behind it
StopTaken(k) ==
    /\ env.bg_exists
    /\ \/ win.handling = [t |-> "cmd", cmd |-> [command |-> "STOP"]]
       \/ (last.act = "HandleCommand" /\ last.cmd.command = "STOP")
    /\ env.sent = k
    /\ NoCommandQueued

\* C5: with a background asset that exists, once a Stop command is handled
\* (in any controller state) and no further command arrives, the
\* controller eventually shows the background in fill mode with the
\* fade-in completed, and stays there.
C5_StopReturnsToBackground ==
    \A k \in 1..MaxPayloads :
        [](StopTaken(k) => (<>[]BackgroundShown \/ <>(env.sent > k)))

\* the last payload was a Stop that stopped the producer of a video, and
\* the background is now shown, the fade-in just completed
C5_Witness ==
    /\ env.bg_exists
    /\ BackgroundShown
    /\ last.act = "FadeFinished"
    /\ last.ev.endValue = FadeSteps
    /\ env.sent = MaxPayloads
    /\ Len(threads) = 1
    /\ ~threads[1].running


\* the handler of a Stop command returns in this step
StopReturns ==
    \/ /\ Dispatch([command |-> "STOP"])
       /\ win'.mpc = "idle"
    \/ /\ win.handling = [t |-> "cmd", cmd |-> [command |-> "STOP"]]
       /\ win'.handling = NoEvent

\* C6: when the handler of a Stop command returns, the duration timer is
\* disarmed and no Frame Producer is running: the producer was asked to stop
\* and the controller waited for its thread to exit, whether or not a
\* return to the background is started.
C6_StopTearsDown ==
    [][StopReturns =>
          /\ ~win'.timer
          /\ \A i \in DOMAIN threads' : ~isRunning(threads'[i])]_vars

\* a Stop handler that had to stop a running producer has returned, with no
\* background to return to
C6_Witness ==
    /\ last.act = "MainWaitReturn"
    /\ last.op = "stop_playback"
    /\ last.done
    /\ ~env.bg_exists
    /\ win.anim.state = "Stopped"
    /\ threads # <<>>


\* the media timer expires in this step
TimerExpires ==
    /\ win.mpc = "idle"
    /\ win.timer
    /\ win' # win
    /\ last'.act = "MediaTimeout"

\* the finished signal e of a producer is handled in this step
FinishedHandled(e) ==
    /\ win.mpc = "idle"
    /\ evq # <<>>
    /\ Head(evq) = e
    /\ e.t = "finished"
    /\ evq' = Tail(evq)

ConnectionServed == env'.sent > env.sent

\* C8: for every payload that is not parseable as a command, the listener
\* answers "ERROR", closes the connection and delivers no command, and the
\* controller state is unchanged.
C8_MalformedRejected ==
    [][(ConnectionServed /\ ipc'.conn.payload \in {"not_json", "not_utf8"})
          => /\ ipc'.conn.reply = "ERROR"
             /\ ipc'.conn.closed
             /\ ~ipc'.conn.emitted
             /\ evq' = evq
             /\ win' = win
             /\ threads' = threads]_vars

\* C9: a Play command whose file does not exist is a complete no-op in
\* every controller state: pixmap, current file, timer, producers, pending
\* request and fade state are as before the command.
C9_MissingFileNoOp ==
    [][\A c \in PlayCommands :
          (Dispatch(c) /\ ~exists(c.file))
          => /\ win' = win
             /\ threads' = threads]_vars

\* a Play of a missing file has just been handled while a fade-out with a
\* pending request was running, or while a producer was playing a video
C9_Witness ==
    /\ last.act = "HandleCommand"
    /\ last.cmd.command = "PLAY"
    /\ last.cmd.file = "gone.mp4"
    /\ last.done
    /\ \/ FadeOutInFlight /\ win.pending_command # NoCommand
       \/ Running # {} /\ win.pixmap.kind = "frame"

\* C10: a Play command for a file that exists but does not decode leaves
\* the current state unchanged: what was showing keeps showing, a video
\* that was playing keeps playing, the timer stays armed.
C10_UndecodableNoOp ==
    [][\A c \in PlayCommands :
          (Dispatch(c) /\ exists(c.file) /\ ~decodes(c.file))
          => /\ win'.timer = win.timer
             /\ win'.pixmap = win.pixmap
             /\ win'.current_file = win.current_file
             /\ win'.pending_command = win.pending_command
             /\ win'.anim = win.anim
             /\ win'.mpc = "idle"
             /\ threads' = threads]_vars

\* the commands that wait in the queue, oldest first
CmdQueue(q) == SelectSeq(q, LAMBDA e : e.t = "cmd")

\* the listener has parsed a command in this step
CommandParsed == ConnectionServed /\ ipc'.conn.payload = "json"

\* C11: every command the listener parses is put once at the end of the
\* commands that wait for the controller; the controller, and only when it
\* is not blocked in a handler, takes the oldest of them and handles that
\* one; no other step adds, drops, repeats or reorders a waiting command.
C11_CommandsInOrder ==
    [][LET cs == CmdQueue(evq)
           cs2 == CmdQueue(evq')
       IN  /\ CommandParsed =>
                /\ cs2 = Append(cs, [t |-> "cmd", cmd |-> ipc'.conn.cmd])
                /\ win' = win
           /\ ~CommandParsed =>
                \/ cs2 = cs /\ (win'.handling.t = "cmd"
                                   => win'.handling = win.handling)
                \/ /\ cs # <<>>
                   /\ cs2 = Tail(cs)
                   /\ Head(evq) = Head(cs)
                   /\ win.mpc = "idle"
                   /\ last'.act = "HandleCommand"
                   /\ last'.cmd = Head(cs).cmd
                   /\ win'.handling.t = "cmd" => win'.handling = Head(cs)]_vars

\* the handler of Play(a.png) is blocked in the wait for the producer it
\* stopped; the producer has emitted its finished signal since, and a Stop
\* that the listener parsed after that waits in the queue behind it
C11_Witness ==
    /\ win.mpc = "wait"
    /\ win.handling =
          [t |-> "cmd",
           cmd |-> [command |-> "PLAY", file |-> "a.png", duration |-> 0]]
    /\ ~isRunning(threads[win.video_thread])
    /\ CmdQueue(evq) = <<[t |-> "cmd", cmd |-> [command |-> "STOP"]]>>
    /\ \E j, k \in DOMAIN evq :
          /\ j < k
          /\ evq[j].t = "finished"
          /\ evq[k].t = "cmd"

\* the frames of producer i that wait for the controller, oldest first
FrameQueue(q, i) == SelectSeq(q, LAMBDA e : e.t = "frame" /\ e.tid = i)

\* the video is more than 50 ms behind the audio clock
Lagging(av) ==
    av.audio_pts > 0 /\ av.pts > 0 /\ av.pts - av.audio_pts < -50000

CloseStarted ==
    \/ win.mpc = "closed"
    \/ win.handling = [t |-> "key"]
    \/ win.handling = [t |-> "cmd", cmd |-> [command |-> "EXIT"]]

\* the close has completed: listener and producers have exited
CloseCompleted ==
    /\ win.mpc = "closed"
    /\ ipc.pc = "done"
    /\ Running = {}

\* C13: after Exit is handled or the window is closed, the listener
\* terminates, every producer exits and the close completes, whatever the
\* clients do (a client may connect and never send).
C13_ExitCompletes == [](CloseStarted => <>CloseCompleted)

\* the listeners that are bound to the address and serving
LiveListeners == {p \in Players : Live(p)}

\* C14: the address is owned by one listening process: at most one live
\* listener is bound to it at a time; the artifact exists, and is its own,
\* whenever a live listener serves; a starting player removes the artifact
\* only when its owner no longer listens; a shutting-down player removes
\* only its own artifact.
C14_ExclusiveAddress ==
    [][/\ Cardinality(LiveListeners') <= 1
       /\ \A p \in Players : Live(p)' => env'.sock = p
       /\ \A p \in Players :
            (ipc[p].pc = "init" /\ ipc'[p].pc = "bind" /\ env.sock # 0)
               => ~Live(env.sock)
       /\ \A p \in Players :
            (ipc[p].pc = "finally" /\ ipc'[p].pc = "done" /\ env.sock # 0)
               => env.sock = p]_vars

\* r is a whole number nearest to num / den
Nearest(r, num, den) ==
    (2 * r * den - 2 * num <= den) /\ (2 * num - 2 * r * den <= den)

\* w * s and h * s for s = min(W/w, H/h), or max(W/w, H/h), as fractions
ExactScaled(img, screen, fill) ==
    LET width_wins ==
            IF fill THEN screen[1] * img[2] >= screen[2] * img[1]
            ELSE screen[1] * img[2] <= screen[2] * img[1]
        N == IF width_wins THEN screen[1] ELSE screen[2]
        D == IF width_wins THEN img[1] ELSE img[2]
    IN  [w |-> img[1] * N, h |-> img[2] * N, den |-> D]

\* C15: in Fit mode (foreground images and video frames) the target size
\* is (round(w*s), round(h*s)) with s = min(W/w, H/h), with no crop, and
\* (1920,1080) on a (1280,720) screen gives exactly (1280,720).
C15_FitRounds ==
    (last.act \in {"display_image", "update_frame"} /\ ~last.is_background)
    => LET x == ExactScaled(env.img, env.screen, FALSE)
       IN  /\ Nearest(last.size[1], x.w, x.den)
           /\ Nearest(last.size[2], x.h, x.den)
           /\ last.crop = <<>>
           /\ (env.img = <<1920, 1080>> /\ env.screen = <<1280, 720>>)
                => last.size = <<1280, 720>>

\* C16: in Fill mode (background) the scaled size is at least the screen
\* on both axes, and whenever it exceeds the screen on either axis the
\* crop is the centered box of exactly (W,H), inside the scaled image.
C16_FillCovers ==
    (last.act = "display_image" /\ last.is_background)
    => LET W == env.screen[1]
           H == env.screen[2]
           nw == last.size[1]
           nh == last.size[2]
       IN  /\ nw >= W
           /\ nh >= H
           /\ (nw > W \/ nh > H) =>
                /\ last.crop # <<>>
                /\ last.crop[3] - last.crop[1] = W
                /\ last.crop[4] - last.crop[2] = H
                /\ last.crop[1] = (nw - W) \div 2
                /\ last.crop[2] = (nh - H) \div 2
                /\ last.crop[1] >= 0
                /\ last.crop[2] >= 0
                /\ last.crop[3] <= nw
                /\ last.crop[4] <= nh

\* the background is put on the label by a return to the background
BackgroundReturned ==
    /\ win'.pixmap # win.pixmap
    /\ win'.pixmap = [kind |-> "image", file |-> Background, fill |-> TRUE]
    /\ last'.act # "InitialBackground"

\* a fade-in has just been started
FadeInStarted ==
    /\ win.opacity = 0
    /\ win.anim = [state |-> "Running", time |-> 0,
                   startValue |-> 0, endValue |-> FadeSteps]

\* C17: a pending request is taken and applied only by the completion of
\* the fade-out that carries it, and every switch of content caused by a
\* Play or a Stop (not the initial background load) is made at opacity 0
\* and leaves a fade-in started.
C17_SwitchAtZeroOpacity ==
    [][/\ (win.pending_command # NoCommand
             /\ win'.pending_command = NoCommand)
            => /\ last'.act = "FadeFinished"
               /\ last'.ev.endValue = 0
               /\ last'.ev.pending = win.pending_command
               /\ FadeOutCompletes
       /\ (ImageShown \/ ProducerStarted \/ BackgroundReturned)
            => FadeInStarted']_vars

\* the completion of a fade-out has just applied a pending Play of an
\* image, after a producer had been playing
C17_Witness ==
    /\ last.act = "FadeFinished"
    /\ last.ev.endValue = 0
    /\ last.ev.pending.type = "play"
    /\ win.pixmap = [kind |-> "image", file |-> "a.png", fill |-> FALSE]
    /\ FadeInStarted
    /\ threads # <<>>

\* C18: after a frame the producer sleeps min(delay, 100 ms) when both
\* timestamps are positive and delay = pts - audio_pts > 1 ms, does not
\* sleep when they are positive and delay < -50 ms, and sleeps 1 ms in
\* every other case (in step within -50 ms .. 1 ms, or no audio
\* reference).
C18_WaitAfterFrame ==
    last.act = "sync" =>
        LET delay == env.pts - env.audio_pts
            both == env.pts > 0 /\ env.audio_pts > 0
        IN  IF both /\ delay > 1000
            THEN last.slept = (IF delay < 100000 THEN delay ELSE 100000)
            ELSE IF both /\ delay < -50000
            THEN last.slept = 0
            ELSE last.slept = 1000

\* the finished signals of producer i that wait for the controller
FinishedQueue(q, i) == SelectSeq(q, LAMBDA e : e.t = "finished" /\ e.tid = i)

\* C19: every producer run emits exactly one finished signal, on every
\* exit path: in the step in which run() returns, with the decode session
\* released, carrying the number of the last frame the run emitted (0: the
\* empty marker); no other step emits one, and a producer that has
\* returned emits nothing more.
C19_OneFinishedSignal ==
    [][\A i \in DOMAIN threads :
          LET t == threads[i]
              t2 == threads'[i]
              returns == isRunning(t) /\ ~isRunning(t2)
          IN  /\ returns =>
                   /\ evq' = Append(evq, [t |-> "finished", tid |-> i,
                                          n |-> t.last_frame])
                   /\ ~t2.player
                   /\ t2.session # "open"
              /\ ~returns =>
                   Len(FinishedQueue(evq', i)) <= Len(FinishedQueue(evq, i))
              /\ ~isRunning(t) =>
                   /\ ~isRunning(t2)
                   /\ Len(FrameQueue(evq', i)) <= Len(FrameQueue(evq, i))
              /\ Len(FrameQueue(evq', i)) > Len(FrameQueue(evq, i)) =>
                   t2.last_frame = evq'[Len(evq')].n
              /\ Len(FrameQueue(evq', i)) <= Len(FrameQueue(evq, i)) =>
                   t2.last_frame = t.last_frame]_vars

\* the controller is inside stop() or wait() on a producer
InStopOrWait == win.mpc \in {"stop_flag", "stop_close", "stop_clear", "wait"}

\* stop() has set the flag of producer i
StopCalled(i) == i \in DOMAIN threads /\ ~threads[i].running

Exited(i) == i \in DOMAIN threads /\ ~isRunning(threads[i])

\* C20: once stop() has been called on a producer, wherever the producer
\* is, the loop test that follows ends the loop, the producer thread
\* exits, and the controller's stop() and wait() return: the controller
\* never stays blocked on the producer.
C20_StopTerminates ==
    /\ [][\A i \in DOMAIN threads :
             (~threads[i].running /\ threads[i].pc = "loop"
                 /\ threads'[i].pc # "loop")
             => threads'[i].pc = "finally"]_vars
    /\ \A i \in 1..MaxPayloads : [](StopCalled(i) => <>Exited(i))
    /\ [](InStopOrWait => <>(~InStopOrWait))

\* the wait of the controller has just returned for a producer that it had
\* stopped before the producer decoded a frame
C20_Witness ==
    /\ last.act = "MainWaitReturn"
    /\ Len(threads) = 1
    /\ ~threads[1].running
    /\ ~isRunning(threads[1])
    /\ threads[1].pos = 0
    /\ threads[1].session = "closed"

\* the GUI thread is between two event handlers
BetweenHandlers == win.mpc = "idle"

\* C21: whenever a fade-out is in flight (is_transitioning is true between
\* two event handlers), no producer thread is running: the video session
\* was destroyed before the transition away from it began.
C21_NoProducerDuringFadeOut ==
    (BetweenHandlers /\ win.is_transitioning)
        => \A i \in DOMAIN threads : ~isRunning(threads[i])

\* fade_out has just stopped and joined the producer of a video and
\* started the fade-out animation
C21_Witness ==
    /\ BetweenHandlers
    /\ win.is_transitioning
    /\ win.anim.state = "Running"
    /\ last.act = "MainWaitReturn"
    /\ last.op = "fade_out"
    /\ win.video_thread # 0
    /\ threads[win.video_thread].pos > 0

\* the fade-out animation is running
FadeOutRunning == win.anim.state = "Running" /\ win.anim.endValue = 0

\* C22: between two event handlers a request is pending exactly when a
\* fade-out is in flight: pending_command is set iff is_transitioning is
\* true, and then the fade-out animation that will apply it is running;
\* a fade-out that has completed had a request to apply.
C22_PendingIffTransitioning ==
    /\ BetweenHandlers =>
         /\ (win.pending_command # NoCommand) <=> win.is_transitioning
         /\ win.is_transitioning <=> FadeOutRunning
    /\ (last.act = "FadeFinished" /\ last.ev.endValue = 0)
         => last.ev.pending # NoCommand

\* a Stop that arrived while a video played has stopped the producer,
\* recorded its request and started the fade-out
C22_Witness ==
    /\ BetweenHandlers
    /\ win.is_transitioning
    /\ win.pending_command = [type |-> "background"]
    /\ FadeOutRunning
    /\ last.act = "MainWaitReturn"
    /\ last.op = "stop_playback"

\* stop() was called on producer i and its thread has exited
TornDown(i) == ~threads[i].running /\ ~isRunning(threads[i])

\* the label shows content displayed after producer i was created: an
\* image (or the background) set since, or a frame of a later producer
Replaced(i) ==
    \/ win.pixmap.kind = "image" /\ win.image_after >= i
    \/ win.pixmap.kind = "frame" /\ win.pixmap.tid > i

\* a frame_ready or playback_finished signal of a producer that was torn
\* down is rendered over the content that replaced its video
StaleRender ==
    /\ last'.act \in {"HandleFrame", "HandleFinished"}
    /\ win'.pixmap = [kind |-> "frame", tid |-> last'.tid, n |-> last'.n]
    /\ TornDown(last'.tid)
    /\ Replaced(last'.tid)

\* C23: a frame or finished signal emitted by a producer that has since
\* been torn down is never rendered after the content that replaced it
\* (an image, the background, a frame of a newer video) was displayed.
C23_NoStaleRender == [][~StaleRender]_vars

\* close_player() is called at most once on the session of a producer,
\* and once on the session of a producer that has exited
ReleasedOnce ==
    \A i \in DOMAIN threads :
        /\ threads[i].closes <= 1
        /\ (~isRunning(threads[i]) /\ threads[i].session # "none")
               => threads[i].closes = 1

\* a poll of the producer (get_frame, get_pts) finds the reference set and
\* the session open
PollsLiveSession ==
    \A i \in DOMAIN threads :
        (threads[i].pc = "poll" /\ threads'[i].pc # "poll")
            => (threads[i].player /\ threads[i].session = "open")

\* C24: under every interleaving of stop() in the controller with the
\* loop and the cleanup of the producer thread, the decode session of a
\* producer is released exactly once, and the producer never polls the
\* session after the controller has released or cleared it.
C24_SessionReleasedOnce == []ReleasedOnce /\ [][PollsLiveSession]_vars

====
